---------------------------- MODULE Spec2Model ----------------------------
(* State-machine model of the realtime chat client in src/static/app.js:   *)
(* the WebSocket connection manager (connectWS, scheduleReconnect), the    *)
(* outbound queue (sendQueue, flushQueue, sendMessage), the pending-echo   *)
(* reconciler (pendingByClientId, addMessage) and the inbound dispatcher   *)
(* (ws.onmessage).  The browser (WebSocket objects, timers, the server)    *)
(* is the environment: it delivers the events open, closing, close/error,  *)
(* message and timer-fire one at a time, as the event loop does.           *)
EXTENDS Integers, Sequences, FiniteSets, TLC

\* ------------------------------------------------------------ bounds
MaxSends == 2     \* sendMessage calls that pass the empty-text check
MaxConns == 2     \* WebSocket objects alive at once (current + stale)
MaxHist == 2      \* length of a history frame's messages array
MaxDisplay == 2   \* children of messagesEl

\* ------------------------------------------------- program constants
CONNECTING == 0
OPEN == 1
CLOSING == 2
CLOSED == 3

\* A slot of the connection pool that holds no WebSocket object.
Free == -1
\* ws === null, reconnectTimer === null, an absent Map entry or client_id.
Null == 0

ConnIds == 1..MaxConns
ClientIds == 1..MaxSends

\* The logged-in user's display name (the global `username`).
Me == "alice"
Usernames == {"alice", "bob", "system"}
Texts == {"hi"}
Times == {1700000000}

\* A server Message; client_id Null is an absent (falsy) client_id.
Msgs == [username : Usernames, text : Texts, created_at : Times,
         client_id : {Null} \cup ClientIds]

\* new Date(created_at * 1000).toLocaleTimeString(): the time of day of the
\* instant created_at seconds after the epoch, the date dropped (here the
\* second of the day, in UTC).
SecondsPerDay == 86400
LocaleTime(t) == t % SecondsPerDay

VARIABLES
  ws,                 \* the global ws: Null or a connection id
  readyState,         \* readyState of every WebSocket object, or Free
  reconnectTimer,     \* the global reconnectTimer: Null or a timer id
  timers,             \* timeouts set and not yet fired (the browser's)
  sendQueue,          \* the global sendQueue
  pendingByClientId,  \* the Map: client id -> element handle, or Null
  messagesEl,         \* the children of messagesEl, in order
  nextClientId,       \* the next client id crypto.randomUUID() returns
  outbox,             \* per connection: payloads accepted by send, not yet delivered
  received,           \* payloads the server has received, in order
  sendLog,            \* every ws.send call so far, in order
  last                \* the event handled last, with its input

vars == <<ws, readyState, reconnectTimer, timers, sendQueue, pendingByClientId,
          messagesEl, nextClientId, outbox, received, sendLog, last>>


\* ------------------------------------------------------------ frames
\* A null / undefined where a Message object is expected: reading
\* msg.username of it throws a TypeError.
NullEntry == [username |-> "null", text |-> "", created_at |-> 0, client_id |-> Null]
IsNullEntry(m) == m.username = "null"

RECURSIVE SeqsUpTo(_, _)
SeqsUpTo(S, n) ==
  IF n = 0 THEN {<<>>}
  ELSE LET shorter == SeqsUpTo(S, n - 1)
       IN  shorter \cup {Append(q, x) : q \in {r \in shorter : Len(r) = n - 1}, x \in S}

\* The messages array of a history frame: Messages, possibly ended by a
\* null entry (what follows an entry that throws is never looked at).
Histories ==
  SeqsUpTo(Msgs, MaxHist)
    \cup {Append(q, NullEntry) : q \in SeqsUpTo(Msgs, MaxHist - 1)}

\* What ev.data can hold, by the path it takes through ws.onmessage.
NoFrame == [shape |-> "none", messages |-> <<>>, message |-> NullEntry]
HistoryFrame(h) == [shape |-> "history", messages |-> h, message |-> NullEntry]
MessageFrame(m) == [shape |-> "message", messages |-> <<>>, message |-> m]
MalformedFrames ==
  {[shape |-> k, messages |-> <<>>, message |-> NullEntry] :
     k \in {"unparsable", "unknown_type", "history_no_messages"}}
Frames ==
  {HistoryFrame(h) : h \in Histories}
    \cup {MessageFrame(m) : m \in Msgs \cup {NullEntry}}
    \cup MalformedFrames

\* The client ids a frame carries.
RECURSIVE CarriedIds(_)
CarriedIds(h) ==
  IF h = <<>> THEN {} ELSE {Head(h).client_id} \cup CarriedIds(Tail(h))
FrameIds(f) == CarriedIds(f.messages) \cup {f.message.client_id}

\* ---------------------------------------------------------- elements
\* A child of messagesEl.  el is the object's identity: a placeholder
\* made by sendMessage keeps the serial of its send (the Map refers to it);
\* an element made by addMessage is referred to by nothing and has el = Null.
\* of is not part of the element: it records the client_id of the message
\* the element was made for.
Sending == "sending..."
Placeholder(k, text) ==
  [el |-> k, me |-> TRUE, pending |-> TRUE, meta |-> <<Me, Sending>>, body |-> text,
   of |-> k]
MetaText(msg) == <<msg.username, LocaleTime(msg.created_at)>>
FreshElement(msg) ==
  [el |-> Null, me |-> (msg.username = Me), pending |-> FALSE,
   meta |-> MetaText(msg), body |-> msg.text, of |-> msg.client_id]

\* ------------------------------------------------------- addMessage
\* ui = [els |-> children of messagesEl, pend |-> pendingByClientId,
\*       threw |-> an exception is propagating].
\* addMessage as it would be without pendingByClientId.delete.
MergeIntoPlaceholder_NoDelete(ui, msg) ==
  LET handle == ui.pend[msg.client_id]
  IN  [ui EXCEPT
         !.els = [i \in 1..Len(ui.els) |->
                    IF ui.els[i].el = handle
                    THEN [ui.els[i] EXCEPT !.meta = MetaText(msg), !.pending = FALSE]
                    ELSE ui.els[i]]]

MergeIntoPlaceholder(ui, msg) ==
  LET handle == ui.pend[msg.client_id]
  IN  [ui EXCEPT
         !.pend = [ui.pend EXCEPT ![msg.client_id] = Null],
         !.els = [i \in 1..Len(ui.els) |->
                    IF ui.els[i].el = handle
                    THEN [ui.els[i] EXCEPT !.meta = MetaText(msg), !.pending = FALSE]
                    ELSE ui.els[i]]]

AppendFresh(ui, msg) == [ui EXCEPT !.els = Append(ui.els, FreshElement(msg))]

IsSystem(msg) == msg.username = "system"

HasPending(ui, msg) == msg.client_id # Null /\ ui.pend[msg.client_id] # Null

\* addMessage as it would be with the "system" test placed after the match.
addMessage_MatchBeforeSystemTest(ui, msg) ==
  IF ui.threw THEN ui
  ELSE IF IsNullEntry(msg) THEN [ui EXCEPT !.threw = TRUE]
  ELSE IF HasPending(ui, msg) THEN MergeIntoPlaceholder(ui, msg)
  ELSE IF IsSystem(msg) THEN ui
  ELSE AppendFresh(ui, msg)

addMessage(ui, msg) ==
  IF ui.threw THEN ui
  ELSE IF IsNullEntry(msg) THEN [ui EXCEPT !.threw = TRUE]
  ELSE IF IsSystem(msg) THEN ui
  ELSE IF HasPending(ui, msg) THEN MergeIntoPlaceholder(ui, msg)
  ELSE AppendFresh(ui, msg)

\* payload.messages.forEach(addMessage)
RECURSIVE ForEachAddMessage(_, _)
ForEachAddMessage(ui, msgs) ==
  IF msgs = <<>> THEN ui
  ELSE ForEachAddMessage(addMessage(ui, Head(msgs)), Tail(msgs))

ClearDisplay(ui) == [ui EXCEPT !.els = <<>>]

\* The body of the try block of ws.onmessage; the catch logs and drops.
Dispatch(ui, frame) ==
  CASE frame.shape = "unparsable" -> [ui EXCEPT !.threw = TRUE]
    [] frame.shape = "history" -> ForEachAddMessage(ClearDisplay(ui), frame.messages)
    [] frame.shape = "history_no_messages" -> [ClearDisplay(ui) EXCEPT !.threw = TRUE]
    [] frame.shape = "message" -> addMessage(ui, frame.message)
    [] OTHER -> ui


\* ------------------------------------------------ connection manager
\* cn = [ws |-> the global ws, readyState |-> of every WebSocket object].
IsLive(cn) ==
  cn.ws # Null /\ (cn.readyState[cn.ws] = CONNECTING \/ cn.readyState[cn.ws] = OPEN)

\* The slots new WebSocket(...) can take: never the one ws referred to,
\* so a new object is always told apart from the one it replaces.
FreeSlots(cn) == {c \in ConnIds : cn.readyState[c] = Free /\ c # cn.ws}
NewSocket(cn) == CHOOSE c \in FreeSlots(cn) : \A d \in FreeSlots(cn) : c <= d

\* A closed object that nothing refers to any more delivers no event and is
\* collected; an object replaced while CLOSING still delivers its close.
Release(cn, c) ==
  IF c # Null /\ cn.readyState[c] = CLOSED THEN [cn.readyState EXCEPT ![c] = Free]
  ELSE cn.readyState

\* connectWS as it would be if it tested readyState === 0 alone.
connectWS_OnlyConnecting(cn) ==
  IF cn.ws # Null /\ cn.readyState[cn.ws] = CONNECTING THEN cn
  ELSE [ws |-> NewSocket(cn),
        readyState |-> [Release(cn, cn.ws) EXCEPT ![NewSocket(cn)] = CONNECTING]]

connectWS(cn) ==
  IF IsLive(cn) THEN cn
  ELSE [ws |-> NewSocket(cn),
        readyState |-> [Release(cn, cn.ws) EXCEPT ![NewSocket(cn)] = CONNECTING]]

\* connectWS returns at once, or finds a slot for the object it creates.
CanConnect(cn) == IsLive(cn) \/ FreeSlots(cn) # {}

\* tm = [reconnectTimer |-> the global, timers |-> the timeouts pending].
NewTimer(tm) == CHOOSE t \in 1..(Cardinality(tm.timers) + 1) : t \notin tm.timers

\* scheduleReconnect as it would be without its first line.
scheduleReconnect_NoGuard(tm) ==
  [reconnectTimer |-> NewTimer(tm), timers |-> tm.timers \cup {NewTimer(tm)}]

scheduleReconnect(tm) ==
  IF tm.reconnectTimer # Null THEN tm
  ELSE [reconnectTimer |-> NewTimer(tm), timers |-> tm.timers \cup {NewTimer(tm)}]

\* ---------------------------------------------------- outbound queue
\* nt = [queue |-> sendQueue, outbox |-> outbox, log |-> sendLog].
\* ws.send(JSON.stringify(payload)) on connection c: it returns, and the
\* payload is buffered for transmission, or it throws.
wsSend(nt, c, payload, via, ok) ==
  [nt EXCEPT
     !.log = Append(nt.log, [payload |-> payload, via |-> via, ok |-> ok]),
     !.outbox = IF ok THEN [nt.outbox EXCEPT ![c] = Append(nt.outbox[c], payload)]
                ELSE nt.outbox]

\* sendQueue.shift(): the head leaves the queue before it is sent.
Shift(nt) == [nt EXCEPT !.queue = Tail(nt.queue)]

\* The while loop of flushQueue; the failAt-th send of the loop throws
\* (0: none does), i counts the sends.
RECURSIVE FlushLoop(_, _, _, _)
FlushLoop(nt, c, failAt, i) ==
  IF nt.queue = <<>> THEN nt
  ELSE IF failAt = i THEN wsSend(Shift(nt), c, Head(nt.queue), "flush", FALSE)
  ELSE FlushLoop(wsSend(Shift(nt), c, Head(nt.queue), "flush", TRUE), c, failAt, i + 1)

\* flushQueue as it would be if its first line tested !ws alone.
flushQueue_NoStateTest(cn, nt, failAt) ==
  IF cn.ws = Null THEN nt
  ELSE FlushLoop(nt, cn.ws, failAt, 1)

flushQueue(cn, nt, failAt) ==
  IF cn.ws = Null \/ cn.readyState[cn.ws] # OPEN THEN nt
  ELSE FlushLoop(nt, cn.ws, failAt, 1)

\* ------------------------------------------------------------- state
Conn == [ws |-> ws, readyState |-> readyState]
Timer == [reconnectTimer |-> reconnectTimer, timers |-> timers]
Net == [queue |-> sendQueue, outbox |-> outbox, log |-> sendLog]
Ui == [els |-> messagesEl, pend |-> pendingByClientId, threw |-> FALSE]

\* What `last` records of an event: the handler, its input, whether the
\* handler found a reconnect timer pending, and whether it ended by an
\* exception that nothing caught (Event: it returned).
Event(op, frame) ==
  [op |-> op, frame |-> frame, timerWas |-> reconnectTimer # Null, raised |-> FALSE]
Raised(op, frame, threw) == [Event(op, frame) EXCEPT !.raised = threw]

\* The page as loaded with no stored token (showAuth): no connection yet.
Init ==
  /\ ws = Null
  /\ readyState = [c \in ConnIds |-> Free]
  /\ reconnectTimer = Null
  /\ timers = {}
  /\ sendQueue = <<>>
  /\ pendingByClientId = [k \in ClientIds |-> Null]
  /\ messagesEl = <<>>
  /\ nextClientId = 1
  /\ outbox = [c \in ConnIds |-> <<>>]
  /\ received = <<>>
  /\ sendLog = <<>>
  /\ last = Event("load", NoFrame)

SetConn(cn) ==
  /\ ws' = cn.ws
  /\ readyState' = cn.readyState
  \* the buffer of an object that is gone is gone with it
  /\ outbox' = [c \in ConnIds |->
                  IF cn.readyState[c] \in {OPEN, CLOSING} THEN outbox[c] ELSE <<>>]

\* ------------------------------------------------------------ actions
\* loginOrRegister succeeded, or the page loaded with a stored token:
\* showChat(); connectWS().
Login ==
  /\ CanConnect(Conn)
  /\ SetConn(connectWS(Conn))
  /\ last' = Event("login", NoFrame)
  /\ UNCHANGED <<reconnectTimer, timers, sendQueue, pendingByClientId, messagesEl,
                 nextClientId, received, sendLog>>

\* The open event of connection c: readyState becomes OPEN, then ws.onopen.
OnOpen(c, failAt) ==
  /\ readyState[c] = CONNECTING
  /\ failAt \in 0..Len(sendQueue)
  /\ LET cn == [Conn EXCEPT !.readyState[c] = OPEN]
         nt == flushQueue(cn, Net, failAt)
     IN  /\ ws' = cn.ws
         /\ readyState' = cn.readyState
         /\ sendQueue' = nt.queue
         /\ outbox' = nt.outbox
         /\ sendLog' = nt.log
  /\ last' = Event("open", NoFrame)
  /\ UNCHANGED <<reconnectTimer, timers, pendingByClientId, messagesEl,
                 nextClientId, received>>

\* The server starts the closing handshake: readyState becomes CLOSING,
\* no handler runs.
OnClosing(c) ==
  /\ readyState[c] = OPEN
  /\ readyState' = [readyState EXCEPT ![c] = CLOSING]
  /\ last' = Event("closing", NoFrame)
  /\ UNCHANGED <<ws, reconnectTimer, timers, sendQueue, pendingByClientId,
                 messagesEl, nextClientId, outbox, received, sendLog>>

\* The close of a connection as it would be if ws.onclose did not call
\* scheduleReconnect.
OnClose_NoSchedule(c, error) ==
  /\ readyState[c] \in {CONNECTING, OPEN, CLOSING}
  /\ LET closed == [Conn EXCEPT !.readyState[c] = CLOSED]
         cn == [closed EXCEPT !.readyState = IF c = ws THEN @ ELSE Release(closed, c)]
     IN  SetConn(cn)
  /\ last' = Event(IF error THEN "error" ELSE "close", NoFrame)
  /\ UNCHANGED <<reconnectTimer, timers, sendQueue, pendingByClientId, messagesEl,
                 nextClientId, received, sendLog>>

\* The connection is closed (a failed attempt, a lost or a finished
\* connection): readyState becomes CLOSED, ws.onerror when it failed, then
\* ws.onclose.  What the object had buffered is lost.
OnClose(c, error) ==
  /\ readyState[c] \in {CONNECTING, OPEN, CLOSING}
  /\ LET closed == [Conn EXCEPT !.readyState[c] = CLOSED]
         cn == [closed EXCEPT !.readyState = IF c = ws THEN @ ELSE Release(closed, c)]
         tm == scheduleReconnect(Timer)
     IN  /\ SetConn(cn)
         /\ reconnectTimer' = tm.reconnectTimer
         /\ timers' = tm.timers
  /\ last' = Event(IF error THEN "error" ELSE "close", NoFrame)
  /\ UNCHANGED <<sendQueue, pendingByClientId, messagesEl, nextClientId,
                 received, sendLog>>

\* The timer callback as it would be without its call of connectWS.
OnTimer_NoConnect(t) ==
  /\ t \in timers
  /\ timers' = timers \ {t}
  /\ reconnectTimer' = Null
  /\ last' = Event("timer", NoFrame)
  /\ UNCHANGED <<ws, readyState, outbox, sendQueue, pendingByClientId, messagesEl,
                 nextClientId, received, sendLog>>

\* The timeout set by scheduleReconnect fires.
OnTimer(t) ==
  /\ t \in timers
  /\ CanConnect(Conn)
  /\ timers' = timers \ {t}
  /\ reconnectTimer' = Null
  /\ SetConn(connectWS(Conn))
  /\ last' = Event("timer", NoFrame)
  /\ UNCHANGED <<sendQueue, pendingByClientId, messagesEl, nextClientId,
                 received, sendLog>>

\* ws.onmessage as it would be without its try/catch.
OnMessage_NoCatch(c, frame) ==
  /\ readyState[c] = OPEN
  /\ FrameIds(frame) \subseteq {Null} \cup 1..(nextClientId - 1)
  /\ LET ui == Dispatch(Ui, frame)
     IN  /\ Len(ui.els) <= MaxDisplay
         /\ messagesEl' = ui.els
         /\ pendingByClientId' = ui.pend
         /\ last' = Raised("message", frame, ui.threw)
  /\ UNCHANGED <<ws, readyState, reconnectTimer, timers, sendQueue, nextClientId,
                 outbox, received, sendLog>>

\* A message event of connection c: ws.onmessage.  What the try block
\* throws is caught and logged.
OnMessage(c, frame) ==
  /\ readyState[c] = OPEN
  /\ FrameIds(frame) \subseteq {Null} \cup 1..(nextClientId - 1)
  /\ LET ui == Dispatch(Ui, frame)
     IN  /\ Len(ui.els) <= MaxDisplay
         /\ messagesEl' = ui.els
         /\ pendingByClientId' = ui.pend
  /\ last' = Event("message", frame)
  /\ UNCHANGED <<ws, readyState, reconnectTimer, timers, sendQueue, nextClientId,
                 outbox, received, sendLog>>

\* sendMessage as it would be without the connectWS call of its else branch.
sendMessage_NoConnect(text, ok) ==
  /\ text # ""
  /\ nextClientId <= MaxSends
  /\ Len(messagesEl) < MaxDisplay
  /\ LET clientId == nextClientId
         payload == [text |-> text, client_id |-> clientId]
     IN  /\ messagesEl' = Append(messagesEl, Placeholder(clientId, text))
         /\ pendingByClientId' = [pendingByClientId EXCEPT ![clientId] = clientId]
         /\ nextClientId' = nextClientId + 1
         /\ IF ws # Null /\ readyState[ws] = OPEN
            THEN LET nt == wsSend(Net, ws, payload, "direct", ok)
                 IN  /\ outbox' = nt.outbox
                     /\ sendLog' = nt.log
                     /\ UNCHANGED <<ws, readyState, sendQueue>>
            ELSE /\ ok
                 /\ sendQueue' = Append(sendQueue, payload)
                 /\ UNCHANGED <<ws, readyState, outbox, sendLog>>
  /\ last' = Raised("send", NoFrame, ~ok)
  /\ UNCHANGED <<reconnectTimer, timers, received>>

\* sendMessage with textInput holding text (trimmed) and no image chosen;
\* ok: the direct ws.send returns rather than throws.
sendMessage(text, ok) ==
  /\ text # ""
  /\ nextClientId <= MaxSends
  /\ Len(messagesEl) < MaxDisplay
  /\ LET clientId == nextClientId
         payload == [text |-> text, client_id |-> clientId]
     IN  /\ messagesEl' = Append(messagesEl, Placeholder(clientId, text))
         /\ pendingByClientId' = [pendingByClientId EXCEPT ![clientId] = clientId]
         /\ nextClientId' = nextClientId + 1
         /\ IF ws # Null /\ readyState[ws] = OPEN
            THEN LET nt == wsSend(Net, ws, payload, "direct", ok)
                 IN  /\ outbox' = nt.outbox
                     /\ sendLog' = nt.log
                     /\ UNCHANGED <<ws, readyState, sendQueue>>
            ELSE /\ ok
                 /\ CanConnect(Conn)
                 /\ sendQueue' = Append(sendQueue, payload)
                 /\ SetConn(connectWS(Conn))
                 /\ UNCHANGED sendLog
  \* nothing catches what the direct ws.send throws
  /\ last' = Raised("send", NoFrame, ~ok)
  /\ UNCHANGED <<reconnectTimer, timers, received>>

\* The network delivers the oldest buffered payload of c to the server.
Deliver(c) ==
  /\ readyState[c] = OPEN
  /\ outbox[c] # <<>>
  /\ received' = Append(received, Head(outbox[c]))
  /\ outbox' = [outbox EXCEPT ![c] = Tail(outbox[c])]
  /\ last' = Event("deliver", NoFrame)
  /\ UNCHANGED <<ws, readyState, reconnectTimer, timers, sendQueue,
                 pendingByClientId, messagesEl, nextClientId, sendLog>>

\* flushQueue() called between two events, whatever the connection is (the
\* code calls it from ws.onopen alone, see OnOpen).
Flush(failAt) ==
  /\ failAt \in 0..Len(sendQueue)
  /\ LET nt == flushQueue(Conn, Net, failAt)
     IN  /\ sendQueue' = nt.queue
         /\ outbox' = nt.outbox
         /\ sendLog' = nt.log
  /\ last' = Event("flush", NoFrame)
  /\ UNCHANGED <<ws, readyState, reconnectTimer, timers, pendingByClientId,
                 messagesEl, nextClientId, received>>

\* The connection manager and the outbound queue: every event of the
\* connections, the timer and the user; the inbound frames, which touch
\* neither, are left to NextUi.
Next ==
  \/ Login
  \/ \E c \in ConnIds, failAt \in 0..MaxSends : OnOpen(c, failAt)
  \/ \E c \in ConnIds : OnClosing(c)
  \/ \E c \in ConnIds, error \in BOOLEAN : OnClose(c, error)
  \/ \E t \in timers : OnTimer(t)
  \/ \E text \in Texts \cup {""}, ok \in BOOLEAN : sendMessage(text, ok)
  \/ \E c \in ConnIds : Deliver(c)

Spec == Init /\ [][Next]_vars

\* The inbound dispatcher and the reconciler: every inbound frame, on a
\* network that connects, closes and reconnects but on which no send throws
\* and no closing handshake is seen.
NextUi ==
  \/ \E c \in ConnIds : OnOpen(c, 0)
  \/ \E c \in ConnIds : OnClose(c, FALSE)
  \/ \E t \in timers : OnTimer(t)
  \/ \E c \in ConnIds, frame \in Frames : OnMessage(c, frame)
  \/ \E text \in Texts : sendMessage(text, TRUE)

SpecUi == Init /\ [][NextUi]_vars

\* The events of Next, and flushQueue called in every state they lead to:
\* the contract of flushQueue for the states in which ws.onopen never
\* calls it.
NextFlush ==
  \/ Next
  \/ \E failAt \in 0..MaxSends : Flush(failAt)

SpecFlush == Init /\ [][NextFlush]_vars

\* The browser fires a timeout that is due, and a closing handshake ends
\* (in the close event of the connection); nothing else is promised.
FairSpec ==
  /\ Init /\ [][Next]_vars
  /\ WF_vars(\E t \in timers : OnTimer(t))
  /\ WF_vars(\E c \in ConnIds : readyState[c] = CLOSING /\ OnClose(c, FALSE))


\* ------------------------------------------------------------ claims
\* What the claims speak of.
RECURSIVE NonSystem(_)
NonSystem(h) ==
  IF h = <<>> THEN <<>>
  ELSE IF Head(h).username = "system" THEN NonSystem(Tail(h))
  ELSE <<Head(h)>> \o NonSystem(Tail(h))

WellFormed(h) == \A i \in 1..Len(h) : ~IsNullEntry(h[i])

\* The event handled last was a history frame / a message frame that
\* carried a Message.
JustHistory ==
  last.op = "message" /\ last.frame.shape = "history" /\ WellFormed(last.frame.messages)
JustMessage ==
  last.op = "message" /\ last.frame.shape = "message" /\ ~IsNullEntry(last.frame.message)

\* Element e shows message m as confirmed.
Shows(e, m) ==
  /\ ~e.pending
  /\ e.meta = <<m.username, m.created_at % SecondsPerDay>>
  /\ e.body = m.text

\* The children of messagesEl made for the message with client id k.
EntriesOf(els, k) == {i \in 1..Len(els) : els[i].of = k}

\* C1: after a history frame carrying [m1..mn] has been processed, the
\* display is exactly the messages of the sequence whose username is not
\* "system", each once and in order, none of them an element that was
\* displayed before (a placeholder).
C1_HistoryShowsSequence ==
  JustHistory =>
    LET shown == NonSystem(last.frame.messages)
    IN  /\ Len(messagesEl) = Len(shown)
        /\ \A i \in 1..Len(shown) :
             i <= Len(messagesEl) =>
               Shows(messagesEl[i], shown[i]) /\ messagesEl[i].el = Null

\* C2: when the message frame that confirms a submitted message (its
\* client_id is still awaited, its username is not "system") has been
\* processed, the display holds exactly one entry for that message and that
\* entry is confirmed.
C2_ConfirmedExactlyOnce ==
  [][(/\ last'.op = "message"
      /\ last'.frame.shape = "message"
      /\ ~IsNullEntry(last'.frame.message)
      /\ last'.frame.message.username # "system"
      /\ last'.frame.message.client_id # Null
      /\ pendingByClientId[last'.frame.message.client_id] # Null)
     => LET k == last'.frame.message.client_id
        IN  /\ Cardinality(EntriesOf(messagesEl', k)) = 1
            /\ \A i \in EntriesOf(messagesEl', k) : ~messagesEl'[i].pending]_vars


\* The client ids of a sequence of payloads / of the ws.send calls chosen.
Ids(q) == [i \in 1..Len(q) |-> q[i].client_id]
Range(q) == {q[i] : i \in 1..Len(q)}
HandedOk(via) ==
  LET picked == SelectSeq(sendLog, LAMBDA e : e.via = via /\ e.ok)
  IN  [i \in 1..Len(picked) |-> picked[i].payload.client_id]
Increasing(q) == \A i, j \in 1..Len(q) : i < j => q[i] < q[j]

\* C3: no submitted payload is lost across a disconnect.  Once a connection
\* is open again and the client holds nothing more to transmit (the queue
\* and the buffers of the connections are empty), the server has received
\* every payload that sendMessage handed to a connection without error.
C3_NothingLostAcrossDisconnect ==
  (/\ ws # Null
   /\ readyState[ws] = OPEN
   /\ sendQueue = <<>>
   /\ \A c \in ConnIds : outbox[c] = <<>>)
  => \A i \in 1..Len(sendLog) :
       sendLog[i].ok => sendLog[i].payload \in Range(received)

\* C4: the payloads put in the queue reach a connection in the order they
\* were enqueued, each exactly once: the queued payloads sent so far,
\* followed by those still queued, are the payloads that were enqueued (all
\* but those sent directly), in the order of their submission.
C4_QueueFifoExactlyOnce ==
  LET out == HandedOk("flush") \o Ids(sendQueue)
  IN  /\ Increasing(out)
      /\ Range(out) = (1..(nextClientId - 1)) \ Range(HandedOk("direct"))

\* The connection objects that are Connecting or Open.
LiveConns == {c \in ConnIds : readyState[c] \in {CONNECTING, OPEN}}

\* C5: connectWS called while the current connection is Connecting or Open
\* creates no connection object and changes nothing; at most one
\* connection object is Connecting or Open at any time.
C5_ConnectIdempotent ==
  /\ [](Cardinality(LiveConns) <= 1)
  /\ [][(ws # Null /\ ws \in LiveConns)
        => /\ ws' = ws
           /\ \A c \in ConnIds : readyState[c] = Free => readyState'[c] = Free]_vars
  /\ [][(ws # Null /\ ws \in LiveConns /\ last'.op = "login")
        => UNCHANGED <<ws, readyState, reconnectTimer, timers, sendQueue,
                       pendingByClientId, messagesEl, nextClientId, outbox,
                       received, sendLog>>]_vars

\* connectWS has run from the reconnect timer and found the connection
\* Open (connectWS itself never leaves ws Open).
C5_Witness ==
  last.op = "timer" /\ ws # Null /\ readyState[ws] = OPEN /\ Cardinality(LiveConns) = 1

\* C6: at most one reconnect timer is pending; a close event that finds a
\* timer pending sets no second one; a timer is set only by a close event,
\* one at a time, and is gone once it has fired.
C6_SingleReconnectTimer ==
  /\ [](/\ Cardinality(timers) <= 1
        /\ (reconnectTimer = Null <=> timers = {})
        /\ (reconnectTimer # Null => timers = {reconnectTimer}))
  /\ [][(last'.op \in {"close", "error"} /\ timers # {}) => timers' = timers]_vars
  /\ [][timers' # timers
        => \/ last'.op \in {"close", "error"} /\ timers = {} /\ Cardinality(timers') = 1
           \/ last'.op = "timer" /\ timers' = {}]_vars

\* A close event arrived while a reconnect timer was pending.
C6_Witness ==
  last.op \in {"close", "error"} /\ last.timerWas /\ Cardinality(timers) = 1

\* C7: after the close event of the current connection the client is
\* Disconnected with a reconnect pending, whenever it is Disconnected a
\* reconnect is pending, and a new attempt (Connecting) always follows.
C7_ReconnectPerpetual ==
  /\ [][(ws # Null /\ ws' = ws /\ readyState[ws] # CLOSED /\ readyState'[ws] = CLOSED)
        => reconnectTimer' # Null /\ reconnectTimer' \in timers']_vars
  /\ []((ws # Null /\ readyState[ws] = CLOSED) => reconnectTimer \in timers)
  /\ ((ws # Null /\ readyState[ws] = CLOSED) ~> (ws # Null /\ readyState[ws] = CONNECTING))

\* The current connection has just failed while the timer set by an earlier
\* close was still pending: the client is Disconnected, the timer pending.
C7_Witness ==
  /\ last.op = "error"
  /\ last.timerWas
  /\ ws # Null /\ readyState[ws] = CLOSED
  /\ reconnectTimer # Null


\* The step handles a message frame carrying a Message that is not from
\* "system" and has a client_id.
ConfirmingStep ==
  /\ last'.op = "message"
  /\ last'.frame.shape = "message"
  /\ ~IsNullEntry(last'.frame.message)
  /\ last'.frame.message.username # "system"
  /\ last'.frame.message.client_id # Null

FrameMessages(f) ==
  Range(NonSystem(f.messages)) \cup
    (IF f.shape = "message" /\ f.message.username # "system" THEN {f.message} ELSE {})

\* C9: a message from "system" is never displayed, a message frame carrying
\* one changes neither the display nor the registry, and a frame removes a
\* registry entry only for a client_id that a non-system message of it
\* carries; a history frame displays no more than its non-system messages.
C9_SystemSuppressed ==
  /\ [](\A i \in 1..Len(messagesEl) : messagesEl[i].meta[1] # "system")
  /\ [][(last'.op = "message" /\ last'.frame.shape = "message"
           /\ last'.frame.message.username = "system")
        => UNCHANGED <<messagesEl, pendingByClientId>>]_vars
  /\ [][last'.op = "message"
        => \A k \in ClientIds :
             (pendingByClientId[k] # Null /\ pendingByClientId'[k] = Null)
               => \E m \in FrameMessages(last'.frame) : m.client_id = k]_vars
  /\ [][(last'.op = "message" /\ last'.frame.shape = "history")
        => Len(messagesEl') <= Len(NonSystem(last'.frame.messages))]_vars

\* A message frame from "system" carrying a registered client_id has been
\* handled: the entry is still registered and its placeholder still pending.
C9_Witness ==
  /\ last.op = "message" /\ last.frame.shape = "message"
  /\ last.frame.message.username = "system"
  /\ last.frame.message.client_id # Null
  /\ pendingByClientId[last.frame.message.client_id] # Null
  /\ \E i \in 1..Len(messagesEl) :
       messagesEl[i].el = last.frame.message.client_id /\ messagesEl[i].pending

\* C10: the same history frame processed twice in a row leaves, the second
\* time, the display as the first time left it.
C10_HistoryReplayIdempotent ==
  [][(JustHistory /\ last' = last) => messagesEl' = messagesEl]_vars


\* C11: a history frame does no pending-id matching: handling it removes no
\* registry entry, and every non-system entry of it is rendered as a fresh
\* display entry, also when an entry carries a registered client_id.
C11_HistoryBypassesRegistry ==
  [][(last'.op = "message" /\ last'.frame.shape = "history"
        /\ WellFormed(last'.frame.messages))
     => /\ pendingByClientId' = pendingByClientId
        /\ Len(messagesEl') = Len(NonSystem(last'.frame.messages))
        /\ \A i \in 1..Len(messagesEl') : messagesEl'[i].el = Null]_vars

\* The ws.send calls the step has made, and the payloads of those that
\* returned.
NewSends == SubSeq(sendLog', Len(sendLog) + 1, Len(sendLog'))
SentOk(log) ==
  LET picked == SelectSeq(log, LAMBDA e : e.ok)
  IN  [i \in 1..Len(picked) |-> picked[i].payload]

\* C12: when a send of flushQueue fails the flush stops at once (the failed
\* send is its last) and no payload is lost: the payloads sent successfully,
\* followed by those still queued, are the queue as the flush found it.
C12_FailedFlushKeepsPayloads ==
  [][last'.op = "open"
     => /\ \A i \in 1..Len(NewSends) : ~NewSends[i].ok => i = Len(NewSends)
        /\ SentOk(NewSends) \o sendQueue' = sendQueue]_vars

\* C13: sendMessage with the current connection Open calls ws.send once
\* with the payload and leaves the queue and the connection alone; in any
\* other state it appends the payload at the tail of the queue, calls no
\* send, and leaves a connection attempt in flight (the one that was in
\* flight, or a new one).
C13_SendDirectOrEnqueue ==
  [][last'.op = "send"
     => IF ws # Null /\ readyState[ws] = OPEN
        THEN /\ sendQueue' = sendQueue
             /\ Len(NewSends) = 1
             /\ NewSends[1].via = "direct"
             /\ NewSends[1].payload.client_id = nextClientId
             /\ NewSends[1].ok => outbox'[ws] = Append(outbox[ws], NewSends[1].payload)
             /\ UNCHANGED <<ws, readyState>>
        ELSE /\ Len(sendQueue') = Len(sendQueue) + 1
             /\ SubSeq(sendQueue', 1, Len(sendQueue)) = sendQueue
             /\ sendQueue'[Len(sendQueue')].client_id = nextClientId
             /\ UNCHANGED <<sendLog, outbox>>
             /\ ws' # Null
             /\ readyState'[ws'] \in {CONNECTING, OPEN}
             /\ (ws # Null /\ readyState[ws] = CONNECTING) => UNCHANGED <<ws, readyState>>]_vars

\* sendMessage has found the connection Closing: the payload is queued and a
\* new connection object, Connecting, has taken the place of the old one.
C13_Witness ==
  /\ last.op = "send"
  /\ sendQueue # <<>>
  /\ sendQueue[Len(sendQueue)].client_id = nextClientId - 1
  /\ ws # Null /\ readyState[ws] = CONNECTING
  /\ \E c \in ConnIds : c # ws /\ readyState[c] = CLOSING

\* A frame that is dropped: it does not parse, its type is not known, or a
\* Message is missing where the handler reads one.
Malformed(f) ==
  \/ f.shape \in {"unparsable", "unknown_type", "history_no_messages"}
  \/ f.shape = "history" /\ ~WellFormed(f.messages)
  \/ f.shape = "message" /\ IsNullEntry(f.message)

\* C14: a malformed frame never makes ws.onmessage end by an exception and
\* never touches the connection (it stays Open, no reconnect timer is set,
\* the queue is as it was); the frame that arrives next is dispatched as
\* usual (a Message of another user is appended to the display).
C14_MalformedFrameHarmless ==
  /\ [][(last'.op = "message" /\ Malformed(last'.frame))
        => /\ ~last'.raised
           /\ UNCHANGED <<ws, readyState, reconnectTimer, timers, sendQueue,
                          outbox, sendLog>>]_vars
  /\ [][(/\ last.op = "message" /\ Malformed(last.frame)
          /\ last'.op = "message" /\ last'.frame.shape = "message"
          /\ last'.frame.message.username = "bob"
          /\ last'.frame.message.client_id = Null)
        => /\ Len(messagesEl') = Len(messagesEl) + 1
           /\ SubSeq(messagesEl', 1, Len(messagesEl)) = messagesEl
           /\ Shows(messagesEl'[Len(messagesEl')], last'.frame.message)]_vars

\* A frame whose handling threw (a history with a null entry behind a
\* Message) has been dropped: the connection is Open, no timer is pending.
C14_Witness ==
  /\ last.op = "message"
  /\ last.frame.shape = "history"
  /\ Len(last.frame.messages) = 2
  /\ ~WellFormed(last.frame.messages)
  /\ ~last.raised
  /\ ws # Null /\ readyState[ws] = OPEN
  /\ reconnectTimer = Null /\ timers = {}

\* C15: an error on the current connection, Connecting or Open (the step
\* of the error event changes the state of ws), leaves the client
\* Disconnected with a reconnect timer pending, the handlers end
\* without an exception, and a new connection attempt follows.
C15_ErrorLeadsToReconnect ==
  /\ [][(/\ last'.op = "error"
          /\ ws # Null /\ ws' = ws
          /\ readyState[ws] \in {CONNECTING, OPEN}
          /\ readyState'[ws] # readyState[ws])
        => /\ readyState'[ws] = CLOSED
           /\ reconnectTimer' # Null /\ reconnectTimer' \in timers'
           /\ ~last'.raised]_vars
  /\ ((last.op = "error" /\ ws # Null /\ readyState[ws] = CLOSED)
        ~> (ws # Null /\ readyState[ws] = CONNECTING))

\* The current connection has failed after it had been used (a payload was
\* sent on it) and no timer was pending: the error has set the timer.
C15_Witness ==
  /\ last.op = "error"
  /\ ~last.timerWas
  /\ sendLog # <<>>
  /\ ws # Null /\ readyState[ws] = CLOSED
  /\ reconnectTimer # Null /\ timers = {reconnectTimer}

\* q is what is left of p when payloads have been taken from its head.
IsSuffix(q, p) ==
  Len(q) <= Len(p) /\ q = SubSeq(p, Len(p) - Len(q) + 1, Len(p))

\* C16: flushQueue called with no connection, or with the connection not
\* Open, leaves the queue as it is and sends nothing; the queue changes only
\* by a payload appended at its tail, or by payloads taken from its head by
\* flushQueue while the current connection is Open.
C16_DrainOnlyWhenOpen ==
  /\ [][(last'.op = "flush" /\ ~(ws # Null /\ readyState[ws] = OPEN))
        => UNCHANGED <<sendQueue, sendLog, outbox>>]_vars
  /\ [][sendQueue' # sendQueue
        => \/ /\ Len(sendQueue') = Len(sendQueue) + 1
              /\ SubSeq(sendQueue', 1, Len(sendQueue)) = sendQueue
              /\ last'.op = "send"
           \/ /\ IsSuffix(sendQueue', sendQueue)
              /\ last'.op \in {"open", "flush"}
              /\ ws' # Null /\ readyState'[ws'] = OPEN]_vars

\* flushQueue has been called with payloads queued and the connection
\* Closed: they are still queued.
C16_Witness ==
  /\ last.op = "flush"
  /\ sendQueue # <<>>
  /\ ws # Null /\ readyState[ws] = CLOSED

\* The step delivers the close (or error and close) of a connection object
\* that connectWS has replaced.
StaleClose ==
  /\ last'.op \in {"close", "error"}
  /\ \E c \in ConnIds : c # ws /\ readyState[c] = CLOSING /\ readyState'[c] # CLOSING

\* C17: an event of a superseded connection object changes nothing: not the
\* current connection or its state, not the reconnect timer, not the queue,
\* and nothing is sent or rendered.
C17_StaleEventsIgnored ==
  [][StaleClose
     => /\ ws' = ws
        /\ ws # Null => readyState'[ws] = readyState[ws]
        /\ UNCHANGED <<reconnectTimer, timers, sendQueue, sendLog, messagesEl,
                       pendingByClientId>>]_vars

\* C18: a registry entry is removed only by a message frame that carries
\* its client_id; no other event and no other frame removes it.
C18_EntriesNeverExpire ==
  [][\A k \in ClientIds :
       (pendingByClientId[k] # Null /\ pendingByClientId'[k] # pendingByClientId[k])
         => /\ last'.op = "message"
            /\ last'.frame.shape = "message"
            /\ last'.frame.message.client_id = k]_vars

\* C19: between events, the queue is empty whenever the current connection
\* is Open, and sendMessage hands a payload to the connection directly only
\* when no payload submitted earlier is still queued.
C19_SubmissionOrderKept ==
  /\ []((ws # Null /\ readyState[ws] = OPEN) => sendQueue = <<>>)
  /\ [][(last'.op = "send" /\ sendLog' # sendLog) => sendQueue = <<>>]_vars

\* A frame whose handling fails: it does not parse, or the handler reads a
\* Message where there is none.
Failing(f) ==
  \/ f.shape \in {"unparsable", "history_no_messages"}
  \/ f.shape = "history" /\ ~WellFormed(f.messages)
  \/ f.shape = "message" /\ IsNullEntry(f.message)

\* C20: a frame whose handling fails leaves the display and the registry as
\* they were before it arrived.
C20_DroppedFrameNoEffect ==
  [][(last'.op = "message" /\ Failing(last'.frame))
     => UNCHANGED <<messagesEl, pendingByClientId>>]_vars

=============================================================================
